---- MODULE Spec2Model ----
(***************************************************************************)
(* LongShotPDF: the image pipeline that cuts a long screenshot into pages. *)
(*                                                                         *)
(* A pixel is the tuple <<r, g, b, a>> of its four 8-bit samples.  An      *)
(* uploaded image is kept as a sequence of bands, a band being a number of *)
(* identical rows, so that tall screenshots stay small in the state.  A    *)
(* canvas / ImageData is the record [width, height, rows] where rows[y] is  *)
(* the sequence of the pixels of row y: the flat RGBA array element        *)
(* data[(y * width + x) * 4 + c] of the source is rows[y][x + 1][c + 1].   *)
(* getImageData, putImageData and drawImage are taken to copy samples      *)
(* exactly.                                                                *)
(***************************************************************************)
EXTENDS Integers, Sequences, FiniteSets, TLC

VARIABLES
  img,            \* the decoded image behind the data URL handed to sliceImage
  splitSensitivity, \* option splitSensitivity of sliceImage
  applySharpen,   \* option sharpenImage of sliceImage
  blurMode,       \* which low-pass kernel the platform's blur(2px) filter uses
  threshold,      \* argument threshold of detectSplitPoints
  minLineWidth,   \* argument minLineWidth of detectSplitPoints
  minLinePercent, \* argument minLinePercent of detectSplitPoints
  pc,             \* where the running operation stands
  promise,        \* state of the promise sliceImage returned
  splitPoints,    \* what detectSplitPoints returned
  regions,        \* the [startY, endY) ranges sliceImage drew from the image
  slices,         \* the slices sliceImage pushed, in order
  canvasIn,       \* the canvas handed to trimEmptySpace / sharpenImage
  canvasOut,      \* the canvas it returned
  canvasOut2,     \* the canvas returned when canvasOut is handed in again
  maxHeight,      \* option maxHeight of the sliceImage of utils/imageProcessor.js
  overlap,        \* option overlap of that sliceImage
  autoDetectSplits, \* option autoDetectSplits of that sliceImage
  isProcessing,   \* state isProcessing of the Home page
  imageSlices,    \* state imageSlices of the Home page
  errorMessage,   \* state errorMessage of the Home page
  uploadedImage,  \* state uploadedImage of the Home page: <<>> for null, or <<image>>
  pdfUrl,         \* state pdfUrl of the Home page: <<>> for null, or <<the PDF behind the URL>>
  handler,        \* the handler that awaits the promise of sliceImage
  closureSlices,  \* imageSlices as the running handleCreatePdf captured it
  pdfSlices       \* const slices of handleCreatePdf: what createPdfFromImages is given

vars == <<img, splitSensitivity, applySharpen, blurMode, threshold, minLineWidth,
          minLinePercent, pc, promise, splitPoints, regions, slices, canvasIn, canvasOut,
          canvasOut2, maxHeight, overlap, autoDetectSplits, isProcessing, imageSlices,
          errorMessage, uploadedImage, pdfUrl, handler, closureSlices, pdfSlices>>

legacyVars == <<maxHeight, overlap, autoDetectSplits>>
pageVars == <<isProcessing, imageSlices, errorMessage>>
homeVars == <<uploadedImage, pdfUrl, handler, closureSlices, pdfSlices>>

(***************************************************************************)
(* Arithmetic helpers                                                      *)
(***************************************************************************)
Min2(a, b) == IF a < b THEN a ELSE b
Max2(a, b) == IF a > b THEN a ELSE b
SetMin(S) == CHOOSE m \in S : \A n \in S : m <= n
SetMax(S) == CHOOSE m \in S : \A n \in S : m >= n

\* the concatenation of a sequence of sequences
RECURSIVE Flatten(_)
Flatten(ss) == IF ss = <<>> THEN <<>> ELSE Head(ss) \o Flatten(Tail(ss))
Clamp255(v) == Max2(0, Min2(255, v))

(***************************************************************************)
(* Pixels and images                                                       *)
(***************************************************************************)
WhitePx == <<255, 255, 255, 255>>
BlackPx == <<0, 0, 0, 255>>
GrayPx  == <<80, 80, 80, 255>>
ClearPx == <<255, 255, 255, 0>>

UniformRow(px, w) == [x \in 1..w |-> px]

RECURSIVE BandsHeight(_)
BandsHeight(bands) ==
  IF bands = <<>> THEN 0 ELSE Head(bands).h + BandsHeight(Tail(bands))

RECURSIVE BandRow(_, _, _)
BandRow(bands, k, y) ==
  IF y < bands[k].h THEN bands[k].row ELSE BandRow(bands, k + 1, y - bands[k].h)

MkImage(w, bands) == [width |-> w, height |-> BandsHeight(bands), bands |-> bands]

\* ctx.drawImage(img, 0, sy, width, sh, 0, 0, width, sh) on a fresh width x sh canvas
DrawImage(image, sy, sh) ==
  [width |-> image.width, height |-> sh,
   rows |-> [y \in 0..(sh - 1) |-> BandRow(image.bands, 1, sy + y)]]

(***************************************************************************)
(* detectSplitPoints                                                       *)
(***************************************************************************)
MinGap == 50
LastLineInit == 0 - 50

\* the comparison of brightness and threshold turned around
IsBlackPixelInverted(px, th) == px[1] + px[2] + px[3] > 3 * th

\* brightness = (r + g + b) / 3 < threshold, without the division
IsBlackPixel(px, th) == px[1] + px[2] + px[3] < 3 * th

BlackPixelCount(row, w, th) == Cardinality({x \in 1..w : IsBlackPixel(row[x], th)})

RECURSIVE Pow2Mod(_, _)
\* 2^k modulo n
Pow2Mod(k, n) == IF k = 0 THEN 1 % n ELSE (2 * Pow2Mod(k - 1, n)) % n

RECURSIVE Log2Floor(_)
\* floor(log2(m)) for m >= 1
Log2Floor(m) == IF m < 2 THEN 0 ELSE 1 + Log2Floor(m \div 2)

RECURSIVE Log2Ceil(_, _)
\* the least j with count * 2^j >= w, for 0 < count <= w
Log2Ceil(count, w) == IF count >= w THEN 0 ELSE 1 + Log2Ceil(2 * count, w)

\* the comparison of the percentage in exact arithmetic
PercentAboveExact(count, w, mlp) == count * 100 > mlp * w

\* (blackPixelCount / width) * 100 > minLinePercent in IEEE 754 doubles, for an
\* integer minLinePercent.  Away from equality the rounding errors (below 1e-13)
\* cannot change the comparison.  When 100 * count = minLinePercent * width, the
\* quotient count / width has a 53-bit significand with unit 2^-k, k = 52 + j; it
\* is rounded up by (w - rem) / w units when the remainder rem of count * 2^k by w
\* is above w / 2, and the product with 100 then rounds above minLinePercent when
\* that excess is more than half a unit of minLinePercent.
PercentAbove(count, w, mlp) ==
  IF count * 100 # mlp * w THEN count * 100 > mlp * w
  ELSE /\ count > 0
       /\ LET j   == Log2Ceil(count, w)
              rem == (count * Pow2Mod(52 + j, w)) % w
              em  == Log2Floor(mlp)
          IN  /\ 2 * rem > w
              /\ 200 * (w - rem) > w * 2^(em + j)

\* blackPixelPercent = (blackPixelCount / width) * 100 > minLinePercent;
\* width = 0 gives 0/0 = NaN, and NaN > minLinePercent is false
IsBlackLine(row, w, th, mlp) ==
  /\ w > 0
  /\ PercentAbove(BlackPixelCount(row, w, th), w, mlp)

\* a split point put at the start of the run instead of its middle
MidPointAtStart(start, lineHeight) == start

\* Math.floor(currentLineStart + lineHeight / 2)
MidPoint(start, lineHeight) == start + (lineHeight \div 2)

\* one iteration of the row loop; st = [cur: currentLineStart, lines: blackLines]
RowStep(st, y, isBlack, mlw) ==
  IF isBlack /\ st.cur = -1 THEN [cur |-> y, lines |-> st.lines]
  ELSE IF ~isBlack /\ st.cur # -1 THEN
    [cur |-> -1,
     lines |-> IF y - st.cur >= mlw
               THEN Append(st.lines, MidPoint(st.cur, y - st.cur))
               ELSE st.lines]
  ELSE st

\* the loop for (y = lo; y < hi; y++), run as its first half followed by its second
\* half; the test on first.cur always holds and makes the first half run first
RECURSIVE RowLoop(_, _, _, _, _, _, _)
RowLoop(c, st, lo, hi, th, mlw, mlp) ==
  IF lo >= hi THEN st
  ELSE IF hi = lo + 1 THEN RowStep(st, lo, IsBlackLine(c.rows[lo], c.width, th, mlp), mlw)
  ELSE LET mid == (lo + hi) \div 2
           first == RowLoop(c, st, lo, mid, th, mlw, mlp)
       IN  IF first.cur >= -1 THEN RowLoop(c, first, mid, hi, th, mlw, mlp) ELSE first

\* raw split points that leave out the run still open at the last row
BlackLinesOpenTail(c, th, mlw, mlp) ==
  RowLoop(c, [cur |-> -1, lines |-> <<>>], 0, c.height, th, mlw, mlp).lines

\* the raw split points: the row loop, then the run still open at the last row
BlackLines(c, th, mlw, mlp) ==
  LET st == RowLoop(c, [cur |-> -1, lines |-> <<>>], 0, c.height, th, mlw, mlp)
  IN  IF st.cur # -1 /\ c.height - st.cur >= mlw
      THEN Append(st.lines, MidPoint(st.cur, c.height - st.cur))
      ELSE st.lines

RECURSIVE FilterFrom(_, _, _, _)
FilterFrom(lines, k, lastLine, kept) ==
  IF k > Len(lines) THEN kept
  ELSE IF lines[k] - lastLine > MinGap
       THEN FilterFrom(lines, k + 1, lines[k], Append(kept, lines[k]))
       ELSE FilterFrom(lines, k + 1, lastLine, kept)

\* a filter that forgets to move lastLine
FilterLinesStale(lines) ==
  SelectSeq(lines, LAMBDA l : l - LastLineInit > MinGap)

FilterLines(lines) == FilterFrom(lines, 1, LastLineInit, <<>>)

\* getImageData throws IndexSizeError on an empty source rectangle
GetImageDataThrows(w, h) == w = 0 \/ h = 0

detectSplitPoints(image, th, mlw, mlp) ==
  FilterLines(BlackLines(DrawImage(image, 0, image.height), th, mlw, mlp))

(***************************************************************************)
(* trimEmptySpace                                                          *)
(***************************************************************************)
ContentLimit == 250

\* a content test that looks at the colour only
IsContentNoAlpha(px) == px[1] < ContentLimit \/ px[2] < ContentLimit \/ px[3] < ContentLimit

IsContent(px) ==
  px[1] < ContentLimit \/ px[2] < ContentLimit \/ px[3] < ContentLimit \/ px[4] > 0

ContentRows(c) ==
  {y \in 0..(c.height - 1) : \E x \in 1..c.width : IsContent(c.rows[y][x])}
ContentCols(c) ==
  {x \in 0..(c.width - 1) : \E y \in 0..(c.height - 1) : IsContent(c.rows[y][x + 1])}

\* top, bottom, left, right as the scan leaves them: they start at height, 0,
\* width, 0 and move only on a content pixel
TrimBox(c) ==
  [top    |-> SetMin(ContentRows(c) \cup {c.height}),
   bottom |-> SetMax(ContentRows(c) \cup {0}),
   left   |-> SetMin(ContentCols(c) \cup {c.width}),
   right  |-> SetMax(ContentCols(c) \cup {0})]

\* the guard against "no content"
TrimGuard(box) == box.top >= box.bottom \/ box.left >= box.right

\* a crop into a canvas one column too wide; the column stays transparent black
CropWide(c, left, top, w, h) ==
  [width |-> w + 1, height |-> h,
   rows |-> [y \in 0..(h - 1) |->
               [x \in 1..(w + 1) |-> IF x <= w THEN c.rows[top + y][left + x] ELSE <<0, 0, 0, 0>>]]]

\* drawImage(canvas, left, top, trimWidth, trimHeight, 0, 0, trimWidth, trimHeight)
Crop(c, left, top, w, h) ==
  [width |-> w, height |-> h,
   rows |-> [y \in 0..(h - 1) |-> [x \in 1..w |-> c.rows[top + y][left + x]]]]

\* a crop that forgets the + 1 of the inclusive width
trimEmptySpaceNarrow(c) ==
  LET box == TrimBox(c)
  IN  IF TrimGuard(box) THEN c
      ELSE Crop(c, box.left, box.top, box.right - box.left, box.bottom - box.top + 1)

trimEmptySpace(c) ==
  LET box == TrimBox(c)
  IN  IF TrimGuard(box) THEN c
      ELSE Crop(c, box.left, box.top, box.right - box.left + 1, box.bottom - box.top + 1)

(***************************************************************************)
(* sharpenImage                                                            *)
(***************************************************************************)
BlurRadius == 2
UnsharpThreshold == 5
DarkLimit == 150

BlurModes == {"lo", "mean", "hi"}

RECURSIVE SumFn(_, _, _)
SumFn(f, lo, hi) ==
  IF lo > hi THEN 0
  ELSE IF lo = hi THEN f[lo]
  ELSE LET mid == (lo + hi) \div 2 IN SumFn(f, lo, mid) + SumFn(f, mid + 1, hi)

\* three times totalBrightness: the sum of r + g + b over all pixels
RgbSum(c) ==
  SumFn([y \in 0..(c.height - 1) |->
           LET row == c.rows[y]
           IN  SumFn([x \in 1..c.width |-> row[x][1] + row[x][2] + row[x][3]], 1, c.width)],
        0, c.height - 1)

\* Math.max(0, Math.min(255, Math.round((val - avg) * 1.2 + avg))) with
\* avg = q + rem / (3 * n): round(1.2 val - 0.2 avg) = floor((12 val - 2 avg + 5) / 10)
Stretch(val, q, rem, n) ==
  LET frac == IF rem = 0 THEN 0 ELSE IF 2 * rem <= 3 * n THEN 1 ELSE 2
  IN  Clamp255((12 * val - 2 * q + 5 - frac) \div 10)

\* a contrast stage whose inner loop runs over all four channels
ContrastStageAllChannels(c) ==
  LET n   == c.width * c.height
      sum == RgbSum(c)
      q   == sum \div (3 * n)
      rem == sum % (3 * n)
  IN  [width |-> c.width, height |-> c.height,
       rows |-> [y \in 0..(c.height - 1) |-> [x \in 1..c.width |->
                   LET px == c.rows[y][x]
                   IN  <<Stretch(px[1], q, rem, n), Stretch(px[2], q, rem, n),
                         Stretch(px[3], q, rem, n), Stretch(px[4], q, rem, n)>>]]]

\* stage 1: contrast
ContrastStage(c) ==
  LET n   == c.width * c.height
      sum == RgbSum(c)
      q   == sum \div (3 * n)
      rem == sum % (3 * n)
  IN  [width |-> c.width, height |-> c.height,
       rows |-> [y \in 0..(c.height - 1) |-> [x \in 1..c.width |->
                   LET px == c.rows[y][x]
                   IN  <<Stretch(px[1], q, rem, n), Stretch(px[2], q, rem, n),
                         Stretch(px[3], q, rem, n), px[4]>>]]]

\* the samples of channel ch within BlurRadius of (x, y), clipped to the canvas
Neighbourhood(c, x, y) ==
  (Max2(1, x - BlurRadius)..Min2(c.width, x + BlurRadius))
     \X (Max2(0, y - BlurRadius)..Min2(c.height - 1, y + BlurRadius))

\* filter = 'blur(2px)': a low-pass filter whose kernel the platform chooses; a
\* blurred sample lies between the least and the greatest sample around it
BlurSample(c, x, y, ch, mode) ==
  LET nb   == Neighbourhood(c, x, y)
      vals == {c.rows[p[2]][p[1]][ch] : p \in nb}
      xs   == Max2(1, x - BlurRadius)..Min2(c.width, x + BlurRadius)
      y0   == Max2(0, y - BlurRadius)
      y1   == Min2(c.height - 1, y + BlurRadius)
      tot  == SumFn([yy \in y0..y1 |->
                       SumFn([xx \in xs |-> c.rows[yy][xx][ch]],
                             Max2(1, x - BlurRadius), Min2(c.width, x + BlurRadius))],
                    y0, y1)
  IN  CASE mode = "lo"   -> SetMin(vals)
        [] mode = "hi"   -> SetMax(vals)
        [] mode = "mean" -> (2 * tot + Cardinality(nb)) \div (2 * Cardinality(nb))

\* storing v2 / 2 in a Uint8ClampedArray: clamp, then round half to even
StoreClampedHalves(v2) ==
  LET c2 == Max2(0, Min2(510, v2))
      k  == c2 \div 2
  IN  IF c2 % 2 = 0 THEN k ELSE IF k % 2 = 0 THEN k ELSE k + 1

\* sharp + amount * diff with amount = 2.5, when |diff| > threshold
UnsharpSample(sharp, blurred) ==
  LET diff == sharp - blurred
  IN  IF diff > UnsharpThreshold \/ 0 - diff > UnsharpThreshold
      THEN StoreClampedHalves(2 * sharp + 5 * diff)
      ELSE sharp

\* stage 2: unsharp mask
UnsharpStage(c, mode) ==
  [width |-> c.width, height |-> c.height,
   rows |-> [y \in 0..(c.height - 1) |-> [x \in 1..c.width |->
               LET px == c.rows[y][x]
               IN  <<UnsharpSample(px[1], BlurSample(c, x, y, 1, mode)),
                     UnsharpSample(px[2], BlurSample(c, x, y, 2, mode)),
                     UnsharpSample(px[3], BlurSample(c, x, y, 3, mode)),
                     px[4]>>]]]

\* Math.round(v * 0.8)
DarkenRounded(v) == (8 * v + 5) \div 10

\* Math.floor(v * 0.8)
Darken(v) == (4 * v) \div 5

IsDark(px) == px[1] < DarkLimit /\ px[2] < DarkLimit /\ px[3] < DarkLimit

DarkBoostPixel(px) ==
  IF IsDark(px) THEN <<Darken(px[1]), Darken(px[2]), Darken(px[3]), px[4]>> ELSE px

\* stage 3: dark pixel boost
DarkBoostStage(c) ==
  [width |-> c.width, height |-> c.height,
   rows |-> [y \in 0..(c.height - 1) |-> [x \in 1..c.width |-> DarkBoostPixel(c.rows[y][x])]]]

\* a sharpenImage without its third stage
sharpenImageNoBoost(c, mode) == UnsharpStage(ContrastStage(c), mode)

sharpenImage(c, mode) == DarkBoostStage(UnsharpStage(ContrastStage(c), mode))

(***************************************************************************)
(* Inputs                                                                  *)
(***************************************************************************)
MaxW == 3
MaxH == 2

NoCanvas == [width |-> 0, height |-> 0, rows |-> <<>>]
NoImage == [width |-> 0, height |-> 0, bands |-> <<>>]

\* a w x h canvas whose pixel (x, y) is on[x, y] where the mask is set, off elsewhere
MaskCanvas(w, h, mask, on(_, _), off) ==
  [width |-> w, height |-> h,
   rows |-> [y \in 0..(h - 1) |-> [x \in 1..w |-> IF mask[y][x] THEN on(x, y) ELSE off]]]

Masks(w, h) == [0..(h - 1) -> [1..w -> BOOLEAN]]

\* background pixels: white or nearly white and fully transparent, or white and opaque
Blanks == {ClearPx, <<250, 250, 250, 0>>, WhitePx}
ContentStyles == {"ink", "alpha", "edge", "print"}
ContentPx(style, x, y) ==
  CASE style = "ink"   -> <<40 * x, 40 * y, 0, 0>>
    [] style = "alpha" -> <<255, 255, 255, 1 + x + 8 * y>>
    [] style = "edge"  -> <<255, 249, 255, 0>>
    [] style = "print" -> BlackPx

\* canvas c inside a one-pixel border of off pixels
Framed(c, off) ==
  [width |-> c.width + 2, height |-> c.height + 2,
   rows |-> [y \in 0..(c.height + 1) |->
               [x \in 1..(c.width + 2) |->
                  IF y \in 1..c.height /\ x \in 2..(c.width + 1)
                  THEN c.rows[y - 1][x - 1] ELSE off]]]

TrimInputs ==
  UNION {UNION {UNION {{MaskCanvas(w, h, m, LAMBDA x, y : ContentPx(st, x, y), off),
                        Framed(MaskCanvas(w, h, m, LAMBDA x, y : ContentPx(st, x, y), off), off)} :
                         m \in Masks(w, h), st \in ContentStyles, off \in Blanks} :
                w \in 1..MaxW} : h \in 1..MaxH}

MidGray == <<128, 128, 128, 255>>
TonePairs ==
  {<<MidGray, MidGray>>, <<MidGray, <<128, 128, 128, 64>>>>, <<WhitePx, BlackPx>>,
   <<<<200, 150, 40, 255>>, <<140, 149, 10, 128>>>>, <<GrayPx, <<150, 149, 149, 255>>>>,
   <<BlackPx, ClearPx>>, <<<<200, 100, 40, 255>>, <<100, 100, 100, 255>>>>}

\* 5 x 5 canvases, large enough for a whole blur neighbourhood, in a checker of two tones
WideInputs ==
  {[width |-> 5, height |-> 5,
    rows |-> [y \in 0..4 |-> [x \in 1..5 |-> IF (x + y) % 2 = 0 THEN tp[1] ELSE tp[2]]]] :
     tp \in TonePairs}

\* 2 x 2 dark canvases inside a white transparent border
InkInputs ==
  {Framed(MaskCanvas(2, 2, m, LAMBDA x, y : BlackPx, GrayPx), ClearPx) : m \in Masks(2, 2)}

SharpenInputs ==
  WideInputs \cup InkInputs \cup
  UNION {UNION {{MaskCanvas(w, h, m, LAMBDA x, y : tp[1], tp[2]) :
                   m \in Masks(w, h), tp \in TonePairs} :
                w \in 1..MaxW} : h \in 1..MaxH}

(***************************************************************************)
(* trimEmptySpace and sharpenImage on their own                            *)
(***************************************************************************)
IdleCore ==
  /\ img = NoImage /\ splitSensitivity = 50 /\ applySharpen = FALSE
  /\ promise = "none" /\ splitPoints = <<>> /\ regions = <<>> /\ slices = <<>>
IdleDetect == threshold = 50 /\ minLineWidth = 2 /\ minLinePercent = 70
\* the defaults of the options and the initial state of the page
IdleLegacy == maxHeight = 1200 /\ overlap = 50 /\ autoDetectSplits = FALSE
IdlePage == isProcessing = FALSE /\ imageSlices = <<>> /\ errorMessage = ""
IdleHome ==
  /\ uploadedImage = <<>> /\ pdfUrl = <<>>
  /\ handler = "none" /\ closureSlices = <<>> /\ pdfSlices = <<>>

InitTrim ==
  /\ IdleCore /\ IdleDetect /\ IdleLegacy /\ IdlePage /\ IdleHome
  /\ blurMode = "mean"
  /\ canvasIn \in TrimInputs
  /\ canvasOut = NoCanvas /\ canvasOut2 = NoCanvas
  /\ pc = "start"

TrimEmptySpace ==
  /\ pc = "start"
  /\ canvasOut' = trimEmptySpace(canvasIn)
  /\ pc' = "trimmed"
  /\ UNCHANGED <<img, splitSensitivity, applySharpen, blurMode, threshold, minLineWidth,
                 minLinePercent, promise, splitPoints, regions, slices, canvasIn, canvasOut2>>
  /\ UNCHANGED <<legacyVars, pageVars, homeVars>>

TrimAgain ==
  /\ pc = "trimmed"
  /\ canvasOut2' = trimEmptySpace(canvasOut)
  /\ pc' = "retrimmed"
  /\ UNCHANGED <<img, splitSensitivity, applySharpen, blurMode, threshold, minLineWidth,
                 minLinePercent, promise, splitPoints, regions, slices, canvasIn, canvasOut>>
  /\ UNCHANGED <<legacyVars, pageVars, homeVars>>

NextTrim == TrimEmptySpace \/ TrimAgain
SpecTrim == InitTrim /\ [][NextTrim]_vars

InitSharpen ==
  /\ IdleCore /\ IdleDetect /\ IdleLegacy /\ IdlePage /\ IdleHome
  /\ blurMode \in BlurModes
  /\ canvasIn \in SharpenInputs
  /\ canvasOut = NoCanvas /\ canvasOut2 = NoCanvas
  /\ pc = "start"

SharpenImage ==
  /\ pc = "start"
  /\ canvasOut' = sharpenImage(canvasIn, blurMode)
  /\ pc' = "sharpened"
  /\ UNCHANGED <<img, splitSensitivity, applySharpen, blurMode, threshold, minLineWidth,
                 minLinePercent, promise, splitPoints, regions, slices, canvasIn, canvasOut2>>
  /\ UNCHANGED <<legacyVars, pageVars, homeVars>>

\* trimEmptySpace(processedCanvas) on the canvas sharpenImage returned
TrimSharpened ==
  /\ pc = "sharpened"
  /\ canvasOut2' = trimEmptySpace(canvasOut)
  /\ pc' = "sharptrimmed"
  /\ UNCHANGED <<img, splitSensitivity, applySharpen, blurMode, threshold, minLineWidth,
                 minLinePercent, promise, splitPoints, regions, slices, canvasIn, canvasOut>>
  /\ UNCHANGED <<legacyVars, pageVars, homeVars>>

NextSharpen == SharpenImage \/ TrimSharpened
SpecSharpen == InitSharpen /\ [][NextSharpen]_vars

(***************************************************************************)
(* sliceImage (line detection)                                             *)
(***************************************************************************)
SliceMinLineWidth == 2
SliceMinLinePercent == 60

\* blackThreshold = 120 - splitSensitivity
BlackThreshold(sensitivity) == 120 - sensitivity

\* [0, ...splitPoints, height] without its last element
AllSplitPointsOpen(points, height) == <<0>> \o points

\* [0, ...splitPoints, height]
AllSplitPoints(points, height) == <<0>> \o points \o <<height>>

\* regions that also run from each split point to itself
SliceRegionsRepeated(points, height) ==
  IF points = <<>> THEN << <<0, height>> >>
  ELSE LET all == <<0>> \o Flatten([i \in 1..Len(points) |-> <<points[i], points[i]>>])
                    \o <<height>>
       IN  [i \in 1..(Len(all) - 1) |-> <<all[i], all[i + 1]>>]

\* the [startY, endY) ranges drawn from the image, in the order they are drawn
SliceRegions(points, height) ==
  IF points = <<>> THEN << <<0, height>> >>
  ELSE LET all == AllSplitPoints(points, height)
       IN  [i \in 1..(Len(all) - 1) |-> <<all[i], all[i + 1]>>]

\* one slice: draw the region, sharpen it if asked, trim it, push its size
\* (the PNG data URL of the trimmed canvas is not kept)
SliceOf(image, region, sharpen, mode) ==
  LET canvas    == DrawImage(image, region[1], region[2] - region[1])
      processed == IF sharpen THEN sharpenImage(canvas, mode) ELSE canvas
      trimmed   == trimEmptySpace(processed)
  IN  [width |-> trimmed.width, height |-> trimmed.height]

Slices(image, points, sharpen, mode) ==
  LET rs == SliceRegions(points, image.height)
  IN  [i \in 1..Len(rs) |-> SliceOf(image, rs[i], sharpen, mode)]

(***************************************************************************)
(* Images for the detector and the slicer                                  *)
(***************************************************************************)
MaxRows == 4
MaxLines == 2
MaxCuts == 2

WhiteRow == <<WhitePx, WhitePx, WhitePx, WhitePx, WhitePx>>
BlackRow == <<BlackPx, BlackPx, BlackPx, BlackPx, BlackPx>>
GrayRow  == <<GrayPx, GrayPx, GrayPx, GrayPx, GrayPx>>
MostRow  == <<BlackPx, BlackPx, BlackPx, WhitePx, WhitePx>>

Band(n, row) == [h |-> n, row |-> row]
\* bands of no rows are left out
Bands(seq) == SelectSeq(seq, LAMBDA b : b.h > 0)

SeqsUpTo(S, n) == UNION {[1..k -> S] : k \in 0..n}

\* short images, row by row
ShortImages ==
  {MkImage(Len(WhiteRow), [k \in 1..Len(rs) |-> Band(1, rs[k])]) :
     rs \in SeqsUpTo({WhiteRow, BlackRow, GrayRow, MostRow}, MaxRows) \ {<<>>}}

\* tall images: white gaps, each followed by a line, and a white tail
LineSegments ==
  {<<Band(g, WhiteRow), Band(lh, row)>> : g \in {0, 1, 49}, lh \in {1, 2}, row \in {BlackRow, GrayRow}}
TallImages ==
  {MkImage(Len(WhiteRow), Bands(Flatten(segs) \o <<Band(t, WhiteRow)>>)) :
     segs \in SeqsUpTo(LineSegments, MaxLines) \ {<<>>}, t \in {0, 1}}

White2 == <<WhitePx, WhitePx>>
Clear2 == <<ClearPx, ClearPx>>
Black2 == <<BlackPx, BlackPx>>
Gray2  == <<GrayPx, GrayPx>>

CutSegments ==
  {<<gap, line>> : gap \in {Band(0, White2), Band(48, White2), Band(49, Clear2)},
                   line \in {Band(2, Black2), Band(2, Gray2)}}
\* the images handed to sliceImage; no segment and no tail is an image of height 0
CutImages ==
  {MkImage(Len(White2), Bands(Flatten(segs) \o <<tail>>)) :
     segs \in SeqsUpTo(CutSegments, MaxCuts),
     tail \in {Band(0, White2), Band(1, White2), Band(60, White2), Band(3, Clear2),
               Band(1, Black2)}}
ZeroWidthImages == {MkImage(0, <<>>), MkImage(0, <<Band(3, <<>>)>>)}

Sensitivities == {30, 50}

\* rows of w pixels of which the first k are dark, visible or fully transparent
MaxPercentWidth == 20
PercentRow(w, k, alpha) ==
  [x \in 1..w |-> IF x <= k THEN <<0, 0, 0, alpha>> ELSE <<255, 255, 255, alpha>>]
PercentImages ==
  UNION {{MkImage(w, [i \in 1..Len(rs) |-> Band(1, rs[i])]) :
            rs \in SeqsUpTo({PercentRow(w, k, alpha) : k \in {10, 11, 12}, alpha \in {0, 255}}, 2)
                      \ {<<>>}} :
         w \in {MaxPercentWidth - 1, MaxPercentWidth}}

(***************************************************************************)
(* detectSplitPoints on its own                                            *)
(***************************************************************************)
IdleCanvas == canvasIn = NoCanvas /\ canvasOut = NoCanvas /\ canvasOut2 = NoCanvas

InitDetect ==
  /\ splitSensitivity = 50 /\ applySharpen = FALSE /\ blurMode = "mean"
  /\ promise = "none" /\ splitPoints = <<>> /\ regions = <<>> /\ slices = <<>>
  /\ IdleCanvas /\ IdleLegacy /\ IdlePage /\ IdleHome
  /\ pc = "start"
  /\ \/ /\ img \in TallImages
        /\ threshold \in {50, 90}
        /\ minLineWidth \in {1, 2}
        /\ minLinePercent = 60
     \/ /\ img \in ShortImages
        /\ threshold \in {50, 80, 81, 255}
        /\ minLineWidth \in {1, 2}
        /\ minLinePercent \in {0, 59, 60, 100}
     \/ /\ img \in PercentImages
        /\ threshold = 50
        /\ minLineWidth \in {1, 2}
        /\ minLinePercent \in {50, 55, 60}
     \/ /\ img \in ZeroWidthImages
        /\ IdleDetect

DetectSplitPoints ==
  /\ pc = "start"
  /\ ~GetImageDataThrows(img.width, img.height)
  /\ splitPoints' = detectSplitPoints(img, threshold, minLineWidth, minLinePercent)
  /\ pc' = "detected"
  /\ UNCHANGED <<img, splitSensitivity, applySharpen, blurMode, threshold, minLineWidth,
                 minLinePercent, promise, regions, slices, canvasIn, canvasOut, canvasOut2>>
  /\ UNCHANGED <<legacyVars, pageVars, homeVars>>

\* detectSplitPoints on an image of no width or no height: getImageData throws
DetectSplitPointsThrows ==
  /\ pc = "start"
  /\ GetImageDataThrows(img.width, img.height)
  /\ pc' = "threw"
  /\ UNCHANGED <<img, splitSensitivity, applySharpen, blurMode, threshold, minLineWidth,
                 minLinePercent, promise, splitPoints, regions, slices, canvasIn, canvasOut,
                 canvasOut2>>
  /\ UNCHANGED <<legacyVars, pageVars, homeVars>>

NextDetect == DetectSplitPoints \/ DetectSplitPointsThrows
SpecDetect == InitDetect /\ [][NextDetect]_vars

(***************************************************************************)
(* sliceImage: the promise, the load of the image and the load handler     *)
(***************************************************************************)
InitSliceWith(images) ==
  /\ IdleDetect /\ IdleCanvas /\ IdleLegacy /\ IdlePage /\ IdleHome
  /\ img \in images
  /\ splitSensitivity \in Sensitivities
  /\ applySharpen \in BOOLEAN
  /\ blurMode \in (IF applySharpen THEN BlurModes ELSE {"mean"})
  /\ pc = "start"
  /\ promise = "none"
  /\ splitPoints = <<>> /\ regions = <<>> /\ slices = <<>>

Init == InitSliceWith(CutImages \cup ZeroWidthImages)

\* sliceImage(dataUrl, options): new Promise, new Image, img.src = dataUrl
SliceImage ==
  /\ pc = "start"
  /\ pc' = "loading"
  /\ promise' = "pending"
  /\ UNCHANGED <<img, splitSensitivity, applySharpen, blurMode, threshold, minLineWidth,
                 minLinePercent, splitPoints, regions, slices, canvasIn, canvasOut, canvasOut2>>
  /\ UNCHANGED <<legacyVars, pageVars, homeVars>>

\* img.onload on an image with pixels: detect, cut, resolve
ImgLoad ==
  /\ pc = "loading"
  /\ ~GetImageDataThrows(img.width, img.height)
  /\ LET points == detectSplitPoints(img, BlackThreshold(splitSensitivity),
                                     SliceMinLineWidth, SliceMinLinePercent)
     IN  /\ splitPoints' = points
         /\ regions' = SliceRegions(points, img.height)
         /\ slices' = Slices(img, points, applySharpen, blurMode)
  /\ promise' = "resolved"
  /\ pc' = "done"
  /\ UNCHANGED <<img, splitSensitivity, applySharpen, blurMode, threshold, minLineWidth,
                 minLinePercent, canvasIn, canvasOut, canvasOut2>>
  /\ UNCHANGED <<legacyVars, pageVars, homeVars>>

\* img.onload on an image of no width or no height: getImageData throws inside
\* detectSplitPoints, the handler ends there and nothing settles the promise
ImgLoadThrows ==
  /\ pc = "loading"
  /\ GetImageDataThrows(img.width, img.height)
  /\ pc' = "threw"
  /\ UNCHANGED <<img, splitSensitivity, applySharpen, blurMode, threshold, minLineWidth,
                 minLinePercent, promise, splitPoints, regions, slices, canvasIn, canvasOut,
                 canvasOut2>>
  /\ UNCHANGED <<legacyVars, pageVars, homeVars>>

\* the platform may instead refuse an image of no width or no height: the error
\* event fires, and no onerror handler is set
ImgError ==
  /\ pc = "loading"
  /\ GetImageDataThrows(img.width, img.height)
  /\ pc' = "errored"
  /\ UNCHANGED <<img, splitSensitivity, applySharpen, blurMode, threshold, minLineWidth,
                 minLinePercent, promise, splitPoints, regions, slices, canvasIn, canvasOut,
                 canvasOut2>>
  /\ UNCHANGED <<legacyVars, pageVars, homeVars>>

Next == SliceImage \/ ImgLoad \/ ImgLoadThrows \/ ImgError
Spec == Init /\ [][Next]_vars

\* detectSplitPoints called directly or sliceImage called, on the images of both
InitEither == InitDetect \/ Init
NextEither == NextDetect \/ Next
SpecEither == InitEither /\ [][NextEither]_vars

\* the round trip of the testable properties: one black line in a white image
LineImage(w, above, thick, below) ==
  MkImage(w, Bands(<<Band(above, UniformRow(WhitePx, w)), Band(thick, UniformRow(BlackPx, w)),
                     Band(below, UniformRow(WhitePx, w))>>))
RoundTripScenario == LineImage(1000, 1500, 4, 1496)
RoundTripImages ==
  {LineImage(w, a, t, b) : w \in {1, 2}, a \in {0, 60, 300}, t \in {2, 4}, b \in {0, 296}}
    \cup {RoundTripScenario} \cup ZeroWidthImages

InitRoundTrip ==
  /\ InitSliceWith(RoundTripImages)
  /\ img = RoundTripScenario => (splitSensitivity = 50 /\ ~applySharpen)

SpecRoundTrip == InitRoundTrip /\ [][Next]_vars

(***************************************************************************)
(* sliceImage of utils/imageProcessor.js: pages of a maximum height        *)
(***************************************************************************)
ExtraCutMargin == 100

\* Math.ceil(a / b) for a >= 0 and b > 0
CeilDiv(a, b) == (a + b - 1) \div b

\* the fixed-height path: [startY, startY + sliceHeight) of each of the numSlices pages
FixedRegions(height, maxH, ov) ==
  LET stride    == maxH - ov
      numSlices == CeilDiv(height, stride)
  IN  [k \in 1..numSlices |->
         LET i           == k - 1
             sliceHeight == IF i = numSlices - 1 THEN height - stride * i ELSE maxH
             startY      == Max2(0, i * stride)
         IN  <<startY, startY + sliceHeight>>]

\* the points added between prevPoint and currentPoint; maxHeight / 10 is taken for
\* a maxHeight that is a multiple of 10, as the settings form produces
AdditionalPoints(prevPoint, currentPoint, maxH, ov) ==
  LET distance == currentPoint - prevPoint
  IN  IF distance > maxH
      THEN SelectSeq([j \in 1..(distance \div maxH) |->
                        prevPoint + j * maxH - Min2(ov, maxH \div 10)],
                     LAMBDA newPoint : newPoint < currentPoint - ExtraCutMargin)
      ELSE <<>>

\* finalSplitPoints, built from splitPoints = [0, ...splitPoints, height]
FinalSplitPoints(all, maxH, ov) ==
  <<0>> \o Flatten([i \in 1..(Len(all) - 1) |->
                      AdditionalPoints(all[i], all[i + 1], maxH, ov) \o <<all[i + 1]>>])

\* the split-point path: [startY, endY) of each page, moved up by the overlap
\* except for the first
SplitRegions(points, height, maxH, ov) ==
  LET final == FinalSplitPoints(AllSplitPoints(points, height), maxH, ov)
  IN  [k \in 1..(Len(final) - 1) |->
         <<IF k > 1 THEN Max2(0, final[k] - ov) ELSE final[k], final[k + 1]>>]

\* the regions of the pages of an image taller than maxHeight
PageRegions(points, height, maxH, ov) ==
  IF points = <<>> THEN FixedRegions(height, maxH, ov)
  ELSE SplitRegions(points, height, maxH, ov)

MaxPages == 2

White1 == <<WhitePx>>
Black1 == <<BlackPx>>
PageSegments == {<<Band(g, White1), Band(2, Black1)>> : g \in {98, 1198}}
PageImages ==
  {MkImage(Len(White1), Bands(Flatten(segs) \o <<tail>>)) :
     segs \in SeqsUpTo(PageSegments, MaxPages),
     tail \in {Band(0, White1), Band(100, White1), Band(600, White1), Band(1300, White1)}}

InitPages ==
  /\ IdleDetect /\ IdleCanvas /\ IdlePage /\ IdleHome
  /\ img \in PageImages
  /\ splitSensitivity = 30
  /\ applySharpen = FALSE /\ blurMode = "mean"
  /\ maxHeight \in {500, 1200}
  /\ overlap \in {0, 50, 200}
  /\ autoDetectSplits \in BOOLEAN
  /\ pc = "start"
  /\ promise = "none"
  /\ splitPoints = <<>> /\ regions = <<>> /\ slices = <<>>

\* sliceImage(dataUrl, options): new Promise, new Image, img.src = dataUrl
PagesSliceImage ==
  /\ pc = "start"
  /\ pc' = "loading"
  /\ promise' = "pending"
  /\ UNCHANGED <<img, splitSensitivity, applySharpen, blurMode, threshold, minLineWidth,
                 minLinePercent, splitPoints, regions, slices, canvasIn, canvasOut, canvasOut2>>
  /\ UNCHANGED <<legacyVars, pageVars, homeVars>>

\* a data URL, by the image and the rows it shows; canvas tells the PNG of a page
\* canvas from the data URL that was handed in
DataUrl(image, region, canvas) == [image |-> image, region |-> region, canvas |-> canvas]

\* img.onload on an image no taller than maxHeight: the image is the only page
PagesImgLoadShort ==
  /\ pc = "loading"
  /\ img.height <= maxHeight
  /\ regions' = << <<0, img.height>> >>
  /\ slices' = << [dataUrl |-> DataUrl(img, <<0, img.height>>, FALSE),
                    width |-> img.width, height |-> img.height] >>
  /\ promise' = "resolved"
  /\ pc' = "done"
  /\ UNCHANGED <<img, splitSensitivity, applySharpen, blurMode, threshold, minLineWidth,
                 minLinePercent, splitPoints, canvasIn, canvasOut, canvasOut2>>
  /\ UNCHANGED <<legacyVars, pageVars, homeVars>>

\* img.onload on a taller image: detect if asked, cut, resolve
PagesImgLoadTall ==
  /\ pc = "loading"
  /\ img.height > maxHeight
  /\ ~(autoDetectSplits /\ GetImageDataThrows(img.width, img.height))
  /\ LET points == IF autoDetectSplits
                   THEN detectSplitPoints(img, BlackThreshold(splitSensitivity),
                                          SliceMinLineWidth, SliceMinLinePercent)
                   ELSE <<>>
         rs     == PageRegions(points, img.height, maxHeight, overlap)
     IN  /\ splitPoints' = points
         /\ regions' = rs
         /\ slices' = [k \in 1..Len(rs) |->
                         [dataUrl |-> DataUrl(img, rs[k], TRUE),
                          width |-> img.width, height |-> rs[k][2] - rs[k][1]]]
  /\ promise' = "resolved"
  /\ pc' = "done"
  /\ UNCHANGED <<img, splitSensitivity, applySharpen, blurMode, threshold, minLineWidth,
                 minLinePercent, canvasIn, canvasOut, canvasOut2>>
  /\ UNCHANGED <<legacyVars, pageVars, homeVars>>

NextPages == PagesSliceImage \/ PagesImgLoadShort \/ PagesImgLoadTall
SpecPages == InitPages /\ [][NextPages]_vars

(***************************************************************************)
(* handlePreviewSlices of the Home page, awaiting that sliceImage          *)
(***************************************************************************)
PreviewFailed == "preview failed"

\* one black line in a white image, and data URLs that decode to no pixels
PreviewImages ==
  {LineImage(1, above, 2, below) : above \in {98, 1198}, below \in {0, 600}}
    \cup ZeroWidthImages

\* the page with autoDetectSplits as defaultSettings has it
InitPreview ==
  /\ IdleDetect /\ IdleCanvas /\ IdlePage
  /\ img \in PreviewImages
  /\ uploadedImage = <<img>>
  /\ pdfUrl = <<>> /\ handler = "none" /\ closureSlices = <<>> /\ pdfSlices = <<>>
  /\ splitSensitivity = 30
  /\ applySharpen = FALSE /\ blurMode = "mean"
  /\ maxHeight \in {500, 1200}
  /\ overlap \in {0, 50, 200}
  /\ autoDetectSplits = FALSE
  /\ pc = "start"
  /\ promise = "none"
  /\ splitPoints = <<>> /\ regions = <<>> /\ slices = <<>>

\* handlePreviewSlices up to its await: setIsProcessing(true), setErrorMessage(''),
\* sliceImage(uploadedImage.dataUrl, ...)
HandlePreviewSlices ==
  /\ pc \in {"start", "idle"}
  /\ ~isProcessing
  /\ uploadedImage # <<>>
  /\ img' = uploadedImage[1]
  /\ handler' = "preview"
  /\ isProcessing' = TRUE
  /\ errorMessage' = ""
  /\ promise' = "pending"
  /\ pc' = "loading"
  /\ UNCHANGED <<splitSensitivity, applySharpen, blurMode, threshold, minLineWidth,
                 minLinePercent, splitPoints, regions, slices, canvasIn, canvasOut, canvasOut2>>
  /\ UNCHANGED <<legacyVars, imageSlices, uploadedImage, pdfUrl, closureSlices, pdfSlices>>

\* the data URL does not decode to an image with pixels: the error event fires,
\* no onerror handler is set and nothing settles the promise
PagesImgError ==
  /\ pc = "loading"
  /\ GetImageDataThrows(img.width, img.height)
  /\ pc' = "errored"
  /\ UNCHANGED <<img, splitSensitivity, applySharpen, blurMode, threshold, minLineWidth,
                 minLinePercent, promise, splitPoints, regions, slices, canvasIn, canvasOut,
                 canvasOut2>>
  /\ UNCHANGED <<legacyVars, pageVars, homeVars>>

\* handlePreviewSlices after its await: try, catch and finally
PreviewSettled ==
  /\ pc = "done"
  /\ promise \in {"resolved", "rejected"}
  /\ IF promise = "resolved"
     THEN imageSlices' = slices /\ UNCHANGED errorMessage
     ELSE errorMessage' = PreviewFailed /\ UNCHANGED imageSlices
  /\ isProcessing' = FALSE
  /\ pc' = IF handler = "createPdf" THEN "resumed" ELSE "idle"
  /\ UNCHANGED <<img, splitSensitivity, applySharpen, blurMode, threshold, minLineWidth,
                 minLinePercent, promise, splitPoints, regions, slices, canvasIn, canvasOut,
                 canvasOut2>>
  /\ UNCHANGED <<legacyVars, homeVars>>

NextPreview ==
  HandlePreviewSlices \/ PagesImgLoadShort \/ PagesImgLoadTall \/ PagesImgError \/ PreviewSettled

\* the platform delivers the load or error event, and a settled promise resumes
\* the handler that awaits it
SpecPreview ==
  /\ InitPreview /\ [][NextPreview]_vars
  /\ WF_vars(HandlePreviewSlices)
  /\ WF_vars(PagesImgLoadShort) /\ WF_vars(PagesImgLoadTall) /\ WF_vars(PagesImgError)
  /\ WF_vars(PreviewSettled)

(***************************************************************************)
(* The Home page: upload, preview and PDF creation                         *)
(***************************************************************************)
PdfFailed == "pdf failed"

\* a short image, a tall one, and a data URL that decodes to no pixels
HomeImages ==
  {LineImage(1, 98, 2, 0), LineImage(1, 298, 2, 300), MkImage(0, <<>>)}

\* the page before any upload, with the settings the form was left with
InitHome ==
  /\ IdleDetect /\ IdleCanvas /\ IdlePage /\ IdleHome
  /\ img = NoImage
  /\ splitSensitivity = 30
  /\ applySharpen = FALSE /\ blurMode = "mean"
  /\ maxHeight \in {500, 1200}
  /\ overlap \in {0, 50}
  /\ autoDetectSplits \in BOOLEAN
  /\ pc = "idle"
  /\ promise = "none"
  /\ splitPoints = <<>> /\ regions = <<>> /\ slices = <<>>

\* the uploader's FileReader delivers a file: the dropzone is never disabled, and
\* no event comes between a settled promise and the handler that awaits it
HandleImageUpload ==
  /\ pc # "resumed"
  /\ \E image \in HomeImages : uploadedImage' = <<image>>
  /\ pdfUrl' = <<>>
  /\ imageSlices' = <<>>
  /\ errorMessage' = ""
  /\ UNCHANGED <<img, splitSensitivity, applySharpen, blurMode, threshold, minLineWidth,
                 minLinePercent, pc, promise, splitPoints, regions, slices, canvasIn,
                 canvasOut, canvasOut2>>
  /\ UNCHANGED <<legacyVars, isProcessing, handler, closureSlices, pdfSlices>>

\* the uploaded image as an element of the list given to createPdfFromImages: it
\* has a dataUrl and neither width nor height
UploadItem(image) == [dataUrl |-> DataUrl(image, <<0, image.height>>, FALSE)]

\* const slices = imageSlices.length > 0 ? imageSlices : [uploadedImage], on the
\* values the handler captured when it was created
PdfSlicesOf(capturedSlices, capturedImage) ==
  IF Len(capturedSlices) > 0 THEN capturedSlices ELSE <<UploadItem(capturedImage)>>

\* a click on the PDF button: with no slices the handler first awaits
\* handlePreviewSlices, otherwise it goes on to createPdfFromImages
HandleCreatePdf ==
  /\ pc = "idle"
  /\ ~isProcessing
  /\ uploadedImage # <<>>
  /\ img' = uploadedImage[1]
  /\ closureSlices' = imageSlices
  /\ handler' = "createPdf"
  /\ isProcessing' = TRUE
  /\ errorMessage' = ""
  /\ IF Len(imageSlices) = 0
       THEN /\ promise' = "pending"
            /\ pc' = "loading"
            /\ UNCHANGED pdfSlices
       ELSE /\ pdfSlices' = PdfSlicesOf(imageSlices, uploadedImage[1])
            /\ pc' = "creating"
            /\ UNCHANGED promise
  /\ UNCHANGED <<splitSensitivity, applySharpen, blurMode, threshold, minLineWidth,
                 minLinePercent, splitPoints, regions, slices, canvasIn, canvasOut, canvasOut2>>
  /\ UNCHANGED <<legacyVars, imageSlices, uploadedImage, pdfUrl>>

\* handleCreatePdf after await handlePreviewSlices()
CreatePdfResume ==
  /\ pc = "resumed"
  /\ isProcessing' = TRUE
  /\ errorMessage' = ""
  /\ pdfSlices' = PdfSlicesOf(closureSlices, img)
  /\ pc' = "creating"
  /\ UNCHANGED <<img, splitSensitivity, applySharpen, blurMode, threshold, minLineWidth,
                 minLinePercent, promise, splitPoints, regions, slices, canvasIn, canvasOut,
                 canvasOut2>>
  /\ UNCHANGED <<legacyVars, imageSlices, uploadedImage, pdfUrl, handler, closureSlices>>

\* slice.width and slice.height are numbers
HasSize(slice) == {"width", "height"} \subseteq DOMAIN slice

\* createPdfFromImages resolves: one page per element of the list
CreatePdfSucceeds ==
  /\ pc = "creating"
  /\ pdfUrl' = <<[pages |-> pdfSlices]>>
  /\ isProcessing' = FALSE
  /\ handler' = "none"
  /\ pc' = "idle"
  /\ UNCHANGED <<img, splitSensitivity, applySharpen, blurMode, threshold, minLineWidth,
                 minLinePercent, promise, splitPoints, regions, slices, canvasIn, canvasOut,
                 canvasOut2>>
  /\ UNCHANGED <<legacyVars, imageSlices, errorMessage, uploadedImage, closureSlices, pdfSlices>>

\* createPdfFromImages throws: the library is handed an image height that is not
\* a number, or image data it cannot embed
CreatePdfFails ==
  /\ pc = "creating"
  /\ \E k \in 1..Len(pdfSlices) :
       ~HasSize(pdfSlices[k]) \/ pdfSlices[k].dataUrl.image.width = 0
  /\ errorMessage' = PdfFailed
  /\ isProcessing' = FALSE
  /\ handler' = "none"
  /\ pc' = "idle"
  /\ UNCHANGED <<img, splitSensitivity, applySharpen, blurMode, threshold, minLineWidth,
                 minLinePercent, promise, splitPoints, regions, slices, canvasIn, canvasOut,
                 canvasOut2>>
  /\ UNCHANGED <<legacyVars, imageSlices, uploadedImage, pdfUrl, closureSlices, pdfSlices>>

NextHome ==
  \/ HandleImageUpload
  \/ HandlePreviewSlices
  \/ HandleCreatePdf
  \/ PagesImgLoadShort
  \/ PagesImgLoadTall
  \/ PagesImgError
  \/ PreviewSettled
  \/ CreatePdfResume
  \/ CreatePdfSucceeds
  \/ CreatePdfFails

SpecHome == InitHome /\ [][NextHome]_vars

(***************************************************************************)
(* Claims on detectSplitPoints                                             *)
(***************************************************************************)
\* C1: the sequence returned by detectSplitPoints is strictly ascending and every
\* two consecutive points differ by more than 50.
C1_PointsSpaced ==
  pc = "detected" =>
    \A i \in 1..(Len(splitPoints) - 1) : splitPoints[i + 1] - splitPoints[i] > 50

C1_Witness ==
  /\ pc = "detected"
  /\ Len(splitPoints) >= 2

ImageRow(image, y) == BandRow(image.bands, 1, y)

\* image is white except for one black row, at index r
OneBlackRowAt(image, r) ==
  /\ r \in 0..(image.height - 1)
  /\ \A y \in 0..(image.height - 1) :
       ImageRow(image, y) = UniformRow(IF y = r THEN BlackPx ELSE WhitePx, image.width)

\* C5: on a white image with one full-width black row at index r, detectSplitPoints
\* with minLineWidth = 1, a threshold from 50 to 255 and a minLinePercent from 0 to
\* 100 returns exactly <<r>>.
C5_SingleBlackRow ==
  \A r \in 0..(img.height - 1) :
    (/\ pc = "detected"
     /\ minLineWidth = 1
     /\ threshold \in 50..255
     /\ minLinePercent \in 0..100
     /\ OneBlackRowAt(img, r))
      => splitPoints = <<r>>

(***************************************************************************)
(* Claims on sliceImage                                                    *)
(***************************************************************************)
\* C2: the regions sliceImage cuts partition [0, height): the first starts at 0, the
\* last ends at height, each starts where the previous one ends, and there are
\* exactly (number of split points + 1) slices, in top-to-bottom order.
C2_RegionsPartition ==
  pc = "done" =>
    /\ Len(regions) = Len(splitPoints) + 1
    /\ Len(slices) = Len(regions)
    /\ regions[1][1] = 0
    /\ regions[Len(regions)][2] = img.height
    /\ \A i \in 1..(Len(regions) - 1) :
         /\ regions[i + 1][1] = regions[i][2]
         /\ regions[i][1] < regions[i + 1][1]

C2_Witness ==
  /\ pc = "done"
  /\ Len(regions) >= 3
  /\ Len(slices) = Len(regions)

\* C6: for the 1000 x 3000 white image whose rows 1500..1503 are black, with
\* sensitivity 50, detectSplitPoints returns <<1502>> and sliceImage produces
\* exactly 2 slices, cut from [0, 1502) and [1502, 3000).
C6_RoundTrip ==
  (pc = "done" /\ img = RoundTripScenario /\ splitSensitivity = 50) =>
    /\ BlackThreshold(splitSensitivity) = 70
    /\ splitPoints = <<1502>>
    /\ Len(slices) = 2
    /\ regions = << <<0, 1502>>, <<1502, 3000>> >>

C6_Witness ==
  /\ pc = "done"
  /\ img = RoundTripScenario
  /\ splitSensitivity = 50
  /\ Len(slices) = 2

\* every pixel of the image is white; its pixels are all visible or all transparent
AllWhite(image) ==
  /\ image.width > 0 /\ image.height > 0
  /\ \A k \in 1..Len(image.bands) : \A x \in 1..image.width :
       /\ image.bands[k].row[x][1] = 255
       /\ image.bands[k].row[x][2] = 255
       /\ image.bands[k].row[x][3] = 255
  /\ \/ \A k \in 1..Len(image.bands) : \A x \in 1..image.width : image.bands[k].row[x][4] > 0
     \/ \A k \in 1..Len(image.bands) : \A x \in 1..image.width : image.bands[k].row[x][4] = 0

\* C7: for an all-white image detectSplitPoints returns the empty sequence and
\* sliceImage returns exactly one slice, of the width and height of the image, with
\* sharpening on or off.
C7_AllWhite ==
  (pc = "done" /\ AllWhite(img)) =>
    /\ splitPoints = <<>>
    /\ Len(slices) = 1
    /\ slices[1].width = img.width
    /\ slices[1].height = img.height

C7_Witness ==
  /\ pc = "done"
  /\ AllWhite(img)
  /\ img.height > 50
  /\ applySharpen
  /\ Len(slices) = 1

\* row y of the image counts as a black-line row at the given sensitivity
QualifiesAt(image, y, sensitivity) ==
  IsBlackLine(ImageRow(image, y), image.width, BlackThreshold(sensitivity), SliceMinLinePercent)

\* C8: raising the sensitivity never loses a line: a row that qualifies at a
\* sensitivity below the one sliceImage ran with also qualifies at the one it ran with.
C8_SensitivityMonotone ==
  pc = "done" =>
    \A s1 \in 0..100 : \A y \in 0..(img.height - 1) :
      (s1 < splitSensitivity /\ QualifiesAt(img, y, s1)) => QualifiesAt(img, y, splitSensitivity)

\* C10: an image of zero width or zero height makes sliceImage fail fast: once the
\* image has loaded or failed to load, the promise is rejected and holds no slice.
C10_InvalidImageRejected ==
  (pc \in {"done", "threw", "errored"} /\ (img.width = 0 \/ img.height = 0)) =>
    /\ promise = "rejected"
    /\ slices = <<>>

(***************************************************************************)
(* Claims on trimEmptySpace                                                *)
(***************************************************************************)
ContentPixels(c) ==
  {p \in (0..(c.width - 1)) \X (0..(c.height - 1)) : IsContent(c.rows[p[2]][p[1] + 1])}

\* the minimal bounding box of the content pixels of c, as a canvas
BoundingBox(c) ==
  LET left   == SetMin({p[1] : p \in ContentPixels(c)})
      right  == SetMax({p[1] : p \in ContentPixels(c)})
      top    == SetMin({p[2] : p \in ContentPixels(c)})
      bottom == SetMax({p[2] : p \in ContentPixels(c)})
  IN  [width |-> right - left + 1, height |-> bottom - top + 1,
       rows |-> [y \in 0..(bottom - top) |->
                   [x \in 1..(right - left + 1) |-> c.rows[top + y][left + x]]]]

\* C3: whenever the input of trimEmptySpace holds a content pixel, the result is
\* exactly the minimal bounding box of the content pixels, single-row and
\* single-column content included.
C3_TrimIsBoundingBox ==
  (pc = "trimmed" /\ ContentPixels(canvasIn) # {}) => canvasOut = BoundingBox(canvasIn)

\* C4: trimEmptySpace is idempotent: trimming the result of a trim returns a canvas
\* of the same width, height and pixels.
C4_TrimIdempotent ==
  pc = "retrimmed" => canvasOut2 = canvasOut

C4_Witness ==
  /\ pc = "retrimmed"
  /\ canvasOut.width < canvasIn.width
  /\ canvasOut.height < canvasIn.height

(***************************************************************************)
(* Claims on sharpenImage                                                  *)
(***************************************************************************)
AllPixels(c, P(_)) ==
  \A y \in 0..(c.height - 1) : \A x \in 1..c.width : P(c.rows[y][x])

\* C9: sharpenImage of a canvas whose every pixel has R = G = B = 128 returns a
\* canvas whose every pixel has R = G = B = 102 and the alpha it had.
C9_UniformGray ==
  (pc = "sharpened" /\ AllPixels(canvasIn, LAMBDA px : px[1] = 128 /\ px[2] = 128 /\ px[3] = 128))
    => /\ canvasOut.width = canvasIn.width
       /\ canvasOut.height = canvasIn.height
       /\ \A y \in 0..(canvasIn.height - 1) : \A x \in 1..canvasIn.width :
            canvasOut.rows[y][x] = <<102, 102, 102, canvasIn.rows[y][x][4]>>

C9_Witness ==
  /\ pc = "sharpened"
  /\ canvasIn.width > 1 /\ canvasIn.height > 1
  /\ AllPixels(canvasIn, LAMBDA px : px[1] = 128 /\ px[2] = 128 /\ px[3] = 128)
  /\ \E y \in 0..(canvasIn.height - 1) : \E x \in 1..canvasIn.width : canvasIn.rows[y][x][4] # 255
  /\ canvasOut.rows[0][1][1] = 102

\* C11: sharpenImage followed by trimEmptySpace yields a canvas whose width and
\* height are each at most the input's: sharpenImage keeps the dimensions and
\* trimEmptySpace never enlarges them.
C11_SharpenTrimNoLarger ==
  /\ pc \in {"sharpened", "sharptrimmed"} =>
        (canvasOut.width = canvasIn.width /\ canvasOut.height = canvasIn.height)
  /\ pc = "sharptrimmed" =>
        (canvasOut2.width <= canvasIn.width /\ canvasOut2.height <= canvasIn.height)

C11_Witness ==
  /\ pc = "sharptrimmed"
  /\ canvasOut2.width < canvasIn.width
  /\ canvasOut2.height < canvasIn.height

C13_PageHeightBounded ==
  pc = "done" => \A k \in 1..Len(slices) : slices[k].height <= maxHeight

\* the raw split points of the image the detector ran on
RawPoints == BlackLines(DrawImage(img, 0, img.height), threshold, minLineWidth, minLinePercent)

\* a filter that keeps its first point whatever it is, and each later point exactly
\* when it is more than MinGap past the last kept one
KeepFirstFilter(lines) ==
  IF lines = <<>> THEN <<>> ELSE FilterFrom(lines, 2, lines[1], <<lines[1]>>)

\* C14: the minimum-separation filter of detectSplitPoints always keeps the first
\* raw split point, a raw point at y = 0 included, and keeps every later raw point
\* exactly when it is more than 50 past the last kept point.
C14_FirstPointKept ==
  pc = "detected" => splitPoints = KeepFirstFilter(RawPoints)

\* the rows of the image that qualify under the detector's arguments
QualifyingRows ==
  {y \in 0..(img.height - 1) : IsBlackLine(ImageRow(img, y), img.width, threshold, minLinePercent)}

\* the maximal runs [s, e) of consecutive rows of q
MaximalRuns(q) ==
  {<<s, SetMin({e \in (s + 1)..img.height : e \notin q})>> : s \in {y \in q : (y - 1) \notin q}}

RECURSIVE Ascending(_)
Ascending(S) == IF S = {} THEN <<>> ELSE <<SetMin(S)>> \o Ascending(S \ {SetMin(S)})

\* s + floor((e - s) / 2) for every maximal run of at least minLineWidth rows of q
RunMidPointsOf(q) ==
  Ascending({run[1] + ((run[2] - run[1]) \div 2) :
               run \in {r \in MaximalRuns(q) : r[2] - r[1] >= minLineWidth}})

RunMidPoints == RunMidPointsOf(QualifyingRows)

\* C15: before filtering, the raw split points are, in ascending order, the values
\* s + floor((e - s) / 2) of the maximal runs [s, e) of qualifying rows with
\* e - s >= minLineWidth; a run open at the last row is closed with e = height,
\* and shorter runs emit nothing.
C15_RawPointsAreRunMidPoints ==
  pc = "detected" =>
    /\ RawPoints = RunMidPoints
    /\ splitPoints = FilterLines(RunMidPoints)

C15_Witness ==
  /\ pc = "detected"
  /\ minLineWidth = 2
  /\ img.height >= 4
  /\ 0 \in QualifyingRows /\ 1 \notin QualifyingRows
  /\ (img.height - 1) \in QualifyingRows /\ (img.height - 2) \in QualifyingRows
  /\ RawPoints = <<img.height - 1>>

\* the rows in which the pixels with (R + G + B) / 3 below the threshold, counted,
\* divided by the width and multiplied by 100, exceed minLinePercent
PercentRows ==
  {y \in 0..(img.height - 1) :
     /\ img.width > 0
     /\ PercentAboveExact(Cardinality({x \in 1..img.width :
                               LET px == ImageRow(img, y)[x] IN px[1] + px[2] + px[3] < 3 * threshold}),
                          img.width, minLinePercent)}

\* C16: a row qualifies as a black-line row exactly when its share of pixels with
\* (R + G + B) / 3 below the threshold, in percent, is strictly greater than
\* minLinePercent, whatever the alpha; a row with exactly minLinePercent percent
\* does not qualify, so the split points are those of the runs of such rows.
C16_RowQualifiesByPercent ==
  pc = "detected" =>
    /\ QualifyingRows = PercentRows
    /\ splitPoints = FilterLines(RunMidPointsOf(PercentRows))

\* C17: every split point y returned by detectSplitPoints satisfies
\* 0 <= y < height; under the configuration of sliceImage (minLineWidth = 2) it
\* satisfies 0 < y < height, so every region [startY, endY) sliceImage draws has
\* endY > startY.
C17_PointsInsideImage ==
  /\ pc = "detected" =>
        \A i \in 1..Len(splitPoints) : 0 <= splitPoints[i] /\ splitPoints[i] < img.height
  /\ pc = "done" =>
        /\ \A i \in 1..Len(splitPoints) : 0 < splitPoints[i] /\ splitPoints[i] < img.height
        /\ \A k \in 1..Len(regions) : regions[k][2] > regions[k][1]

C17_Witness ==
  /\ pc = "done"
  /\ Len(splitPoints) >= 2
  /\ splitPoints[1] = 1
  /\ splitPoints[Len(splitPoints)] = img.height - 1
  /\ Len(regions) = Len(splitPoints) + 1

\* the canvas the third stage of sharpenImage reads
BoostInput == UnsharpStage(ContrastStage(canvasIn), blurMode)

\* floor(0.8 * v) as v less the fifth of v rounded up
FloorFourFifths(v) == v - CeilDiv(v, 5)

\* C18: the dark-pixel boost replaces R, G, B by floor(0.8 R), floor(0.8 G),
\* floor(0.8 B) for exactly the pixels whose R, G and B are all below 150; it leaves
\* the R, G, B of every other pixel and the alpha of every pixel as they were.
C18_DarkBoostExact ==
  pc = "sharpened" =>
    \A y \in 0..(canvasIn.height - 1) : \A x \in 1..canvasIn.width :
      LET before == BoostInput.rows[y][x]
          after  == canvasOut.rows[y][x]
      IN  /\ after[4] = before[4]
          /\ IF before[1] < 150 /\ before[2] < 150 /\ before[3] < 150
             THEN /\ after[1] = FloorFourFifths(before[1])
                  /\ after[2] = FloorFourFifths(before[2])
                  /\ after[3] = FloorFourFifths(before[3])
             ELSE /\ after[1] = before[1] /\ after[2] = before[2] /\ after[3] = before[3]

C18_Witness ==
  /\ pc = "sharpened"
  /\ \E y \in 0..(canvasIn.height - 1) : \E x \in 1..canvasIn.width :
       LET before == BoostInput.rows[y][x]
       IN  /\ before[1] < 150 /\ before[2] < 150 /\ before[3] < 150
           /\ canvasOut.rows[y][x][1] < before[1]
  /\ \E y \in 0..(canvasIn.height - 1) : \E x \in 1..canvasIn.width :
       LET before == BoostInput.rows[y][x]
       IN  /\ before[1] >= 150 /\ before[2] < 150 /\ before[3] < 150
           /\ canvasOut.rows[y][x] = before

\* C19: sharpenImage has no effect outside its result: it returns a new canvas of
\* the width and height of its input, leaves the pixels of its input as they were,
\* and gives every pixel of the result the alpha of the input pixel.
C19_SharpenFrame ==
  [][SharpenImage =>
       /\ canvasIn' = canvasIn
       /\ canvasOut'.width = canvasIn.width
       /\ canvasOut'.height = canvasIn.height
       /\ \A y \in 0..(canvasIn.height - 1) : \A x \in 1..canvasIn.width :
            canvasOut'.rows[y][x][4] = canvasIn.rows[y][x][4]
       /\ UNCHANGED <<img, slices, regions, splitPoints, canvasOut2, imageSlices>>]_vars

C19_Witness ==
  /\ pc = "sharpened"
  /\ canvasOut # canvasIn
  /\ \E y \in 0..(canvasIn.height - 1) : \E x \in 1..canvasIn.width :
       /\ canvasIn.rows[y][x][4] \notin {0, 255}
       /\ canvasOut.rows[y][x][4] = canvasIn.rows[y][x][4]
       /\ canvasOut.rows[y][x][1] # canvasIn.rows[y][x][1]

\* C20: every call of sliceImage eventually settles, also when the data URL does
\* not decode; so once handlePreviewSlices has started, isProcessing eventually
\* returns to false with imageSlices set or errorMessage set.
C20_PreviewSettles ==
  /\ (promise = "pending") ~> (promise \in {"resolved", "rejected"})
  /\ isProcessing ~> (~isProcessing /\ (imageSlices # <<>> \/ errorMessage # ""))

(***************************************************************************)
(* Claims on the Home page                                                 *)
(***************************************************************************)
\* C21: when handleCreatePdf was invoked with an uploaded image and imageSlices
\* empty, the list it hands to createPdfFromImages, and so the pages of the PDF
\* it creates, are the slices produced by the handlePreviewSlices call it awaited,
\* not the single unsliced uploaded image.
C21_PdfFromAwaitedSlices ==
  /\ []((pc = "creating" /\ closureSlices = <<>>) => pdfSlices = slices)
  /\ [][(CreatePdfSucceeds /\ closureSlices = <<>>) => pdfUrl' = <<[pages |-> slices]>>]_vars

\* the image a slice or a page was cut from
ImagesOf(items) == {items[k].dataUrl.image : k \in 1..Len(items)}

\* C22: in every reachable state of the Home page, a non-empty imageSlices and a
\* non-null pdfUrl were computed from the currently uploaded image, also when an
\* upload arrived while the slicing or the PDF generation was in flight.
C22_ResultsOfCurrentUpload ==
  /\ ImagesOf(imageSlices) \subseteq {uploadedImage[k] : k \in 1..Len(uploadedImage)}
  /\ \A k \in 1..Len(pdfUrl) :
       ImagesOf(pdfUrl[k].pages) \subseteq {uploadedImage[j] : j \in 1..Len(uploadedImage)}

(***************************************************************************)
(* Claims on the fixed-height path of sliceImage with overlap              *)
(***************************************************************************)
\* C23: in the fixed-height path (no split points, 0 <= overlap < maxHeight <
\* height), every slice's source rows [startY, startY + sliceHeight) lie within
\* [0, height), every slice has positive height, the slices together cover
\* [0, height), and each slice after the first starts exactly overlap rows before
\* the previous slice ends.
C23_FixedSlicesInsideImage ==
  (/\ pc = "done"
   /\ splitPoints = <<>>
   /\ 0 <= overlap /\ overlap < maxHeight /\ maxHeight < img.height)
  => /\ \A k \in 1..Len(regions) : 0 <= regions[k][1] /\ regions[k][2] <= img.height
     /\ \A k \in 1..Len(regions) : regions[k][2] - regions[k][1] > 0
     /\ \A y \in 0..(img.height - 1) :
          \E k \in 1..Len(regions) : regions[k][1] <= y /\ y < regions[k][2]
     /\ \A k \in 2..Len(regions) : regions[k][1] = regions[k - 1][2] - overlap

====
